---------------------------- MODULE Spec2Model ----------------------------
(***************************************************************************)
(* A model of iptv-proxy's request-dispatch and stream-relay engine:       *)
(*   - the header merge and the streaming relay   (package server)         *)
(*   - the two authentication gates               (package server)         *)
(*   - the Xtream action dispatcher               (package xtreamproxy)    *)
(*                                                                         *)
(* Go strings whose characters the code inspects (strconv.Atoi,            *)
(* url.ParseQuery) are sequences of one-character strings; all other       *)
(* strings are TLA+ strings.  An http.Header is a function from header     *)
(* names to the sequence of its values, <<>> for a name that is absent     *)
(* (Header.Values returns nil for it).  Every header the program merges    *)
(* was parsed by net/http, which stores it under its canonical name, and   *)
(* the literal names the code uses are canonical too, so a name stands     *)
(* for its canonical form.                                                 *)
(***************************************************************************)
EXTENDS Integers, Sequences, FiniteSets, TLC

\* ------------------------------------------------------------- bounds
\* longest value list of one name in the headers the merge is applied to
MaxHeaderVals == 2
\* longest value list of one name in an inbound relay request
MaxInVals == 1
\* most key=value pieces of a url-encoded request body
MaxPairs == 3
\* longest value of the limit parameter
MaxLimitLen == 3
\* most series categories of the backend when every action is dispatched
MaxCategories == 3
\* most series categories of the backend in the aggregation taken alone
MaxFanOutCategories == 11
\* most records of a raw all-series answer
MaxRawSeries == 2
\* the longest path of a track URI, in segments
MaxSegments == 2

\* ---------------------------------------------------------- constants
\* io.LimitReader(resp.Body, 8*1024)
ErrBodyLimit == 8192
StatusBadRequest == 400
StatusUnauthorized == 401
StatusInternalServerError == 500

\* ------------------------------------------------------------ helpers
Min(a, b) == IF a < b THEN a ELSE b

Range(s) == {s[i] : i \in 1..Len(s)}

\* all sequences over S of length at most n
SeqsUpTo(S, n) == UNION {[1..k -> S] : k \in 0..n}

\* number of positions of s holding v
Count(s, v) == Cardinality({i \in 1..Len(s) : s[i] = v})

\* ------------------------------------------------------------ headers
HeaderValues == {"a", "b"}

\* values(vs).contains(s)
contains(vs, s) == \E i \in 1..Len(vs) : vs[i] = s

\* a merge that adds every value of src, present in dst or not
MergeValuesAlwaysAdd(dvs, svs) == dvs \o svs

\* The inner loop of mergeHttpHeader for one name: each value of src, in
\* order, is added to dst unless dst (as grown so far) already holds it.
RECURSIVE MergeValues(_, _)
MergeValues(dvs, svs) ==
    IF svs = <<>> THEN dvs
    ELSE MergeValues(IF contains(dvs, Head(svs)) THEN dvs
                     ELSE Append(dvs, Head(svs)),
                     Tail(svs))

\* mergeHttpHeader(dst, src): the new dst.  The names of src are visited in
\* the map's order; each name touches only its own value list of dst, so
\* the order of the names does not show in the result.
mergeHttpHeader(dst, src) ==
    [k \in DOMAIN dst |->
        IF k \in DOMAIN src THEN MergeValues(dst[k], src[k]) ELSE dst[k]]

\* Header.Del(k)
HeaderDel(h, k) == [h EXCEPT ![k] = <<>>]

\* Header.Set(k, v)
HeaderSet(h, k, v) == [h EXCEPT ![k] = <<v>>]

\* Header.Get(k): the first value, "" when there is none
HeaderGet(h, k) == IF h[k] = <<>> THEN "" ELSE h[k][1]

\* ------------------------------------------------------- byte streams
\* the body of the given length; the byte at a place depends on the place
MakeBody(n) == [i \in 1..n |-> i % 251]

\* a bounded read that does not stop at the limit
ReadAllUnlimited(body, limit) == body

\* ioutil.ReadAll(io.LimitReader(body, limit)): the bytes the reader yields,
\* at most limit of them
LimitReadAll(body, limit) == SubSeq(body, 1, Min(limit, Len(body)))

\* a copy that stops after the first 8 KB
IoCopyLimited(written, body) == written \o LimitReadAll(body, ErrBodyLimit)

\* io.Copy(w, resp.Body): every byte the body yields is written to w, in
\* order, after what w was given before
IoCopy(written, body) == written \o body

VARIABLES
    \* --- mergeHttpHeader applied to arbitrary headers
    mdst,       \* dst
    msrc,       \* src
    mdst0,      \* dst as it was before the first merge
    msrc0,      \* src as it was before the first merge
    mstep,      \* how many times the merge was applied
    \* --- Config.stream
    spc,        \* where stream() is: "idle", "start", "built", "responded", "done"
    inHdr,      \* ctx.Request.Header
    reqHdr,     \* req.Header of the outbound request
    reqSent,    \* client.Do(req) was called: the request left for the upstream host
    upStatus,   \* resp.StatusCode, 0 while there is no response
    upHdr,      \* resp.Header
    upBody,     \* the bytes resp.Body yields until EOF or a read error
    respOpen,   \* resp.Body is open
    wHdr,       \* ctx.Writer.Header()
    wStatus,    \* the status set on the response to the client, 0 while unset
    wBody,      \* the bytes written to the client
    \* --- Config.authenticate, Config.appAuthenticate and the handler
    \* --- chained after the gate
    apc,        \* "idle", "start", "returned" (the gate returned), "handled"
    gate,       \* the gate of the route: "authenticate" or "appAuthenticate"
    rawQuery,   \* the url-encoded form values ctx.Bind binds (authenticate)
    sentBody,   \* the request body as the client sent it
    rBody,      \* what ctx.Request.Body yields when read from now on
    aRead,      \* ioutil.ReadAll returned the whole body without an error
    aStatus,    \* the status the gate aborted the request with, 0 for none
    aborted,    \* ctx.IsAborted(): no later handler of the chain runs
    handlerRan, \* the handler chained after the gate ran
    handlerRead, \* the body that handler read
    \* --- Client.Action
    pc,         \* where Action is: "idle", "start", "fallback", "loop",
                \* "filter", "done"
    action,     \* the action name
    q,          \* the query: each parameter's list of values
    cfg,        \* *config.ProxyConfig
    sess,       \* c.UserInfo and c.ServerInfo of the backend session
    nCat,       \* how many series categories the backend has
    calls,      \* the calls made to the backend so far, in order
    idx,        \* the category the loop of lines 265-280 starts next
    inFlight,   \* the categories whose fetch was started and has not returned
    returns,    \* the GetSeries calls that returned: the category asked for
                \* and whether the call succeeded
    allSeries,  \* allSeries
    successCount,
    errorCount,
    respBody,   \* the three results of Action
    httpcode,
    err,
    retLine,    \* the line of the return statement Action left by, 0 before
    categoriesErr, \* the err of c.GetSeriesCategories() (line 255)
    rawKind,    \* how the latest raw all-series call ended: "none" before,
                \* "ok", or "connect", "status", "read", "parse"
    rawSeries,  \* the array the latest raw call's body was decoded to
    openBodies, \* how many response bodies Action holds open
    \* --- Config.reverseProxy and Config.m3u8ReverseProxy
    ppc,        \* "idle", "start", "resolved" (stream() was called),
                \* "aborted"
    route,      \* the handler of the route: "reverseProxy" or
                \* "m3u8ReverseProxy"
    trackURI,   \* c.track.URI
    id,         \* ctx.Param("id")
    rpURL,      \* the URL handed to stream(), <<>> while there is none
    pStatus     \* the status the handler aborted the request with, 0 for none

mergeVars == <<mdst, msrc, mdst0, msrc0, mstep>>

streamVars == <<spc, inHdr, reqHdr, reqSent, upStatus, upHdr, upBody,
                respOpen, wHdr, wStatus, wBody>>

authVars == <<apc, gate, rawQuery, sentBody, rBody, aRead, aStatus, aborted,
              handlerRan, handlerRead>>

actionVars == <<pc, action, q, cfg, sess, nCat, calls, idx, inFlight, returns,
                allSeries, successCount, errorCount, respBody, httpcode, err,
                retLine, categoriesErr, rawKind, rawSeries,
                   openBodies>>

playlistVars == <<ppc, route, trackURI, id, rpURL, pStatus>>

vars == <<mergeVars, streamVars, authVars, actionVars, playlistVars>>

\* ------------------------------------------------- SpecMerge: the merge
MergeNames == {"Accept", "Via"}

MergeHeaders == [MergeNames -> SeqsUpTo(HeaderValues, MaxHeaderVals)]

MergeInit ==
    /\ mdst \in MergeHeaders
    /\ msrc \in MergeHeaders
    /\ mdst0 = mdst
    /\ msrc0 = msrc
    /\ mstep = 0

MergeIdle ==
    /\ mdst = [k \in MergeNames |-> <<>>]
    /\ msrc = [k \in MergeNames |-> <<>>]
    /\ mdst0 = mdst
    /\ msrc0 = msrc
    /\ mstep = 0

\* what a step of the merge leaves alone
MergeFrame == UNCHANGED <<streamVars, authVars, actionVars, playlistVars>>

\* one call mergeHttpHeader(dst, src)
Merge ==
    /\ mstep < 2
    /\ mdst' = mergeHttpHeader(mdst, msrc)
    /\ mstep' = mstep + 1
    /\ UNCHANGED <<msrc, mdst0, msrc0>>
    /\ MergeFrame

MergeNext == Merge

\* ---------------------------------------------- SpecStream: the relay
RelayNames == {"User-Agent", "Authorization", "Proxy-Authorization"}

RespNames == {"Content-Type", "Server"}

EmptyHeader(names) == [k \in names |-> <<>>]

\* the headers of an inbound request: any User-Agent values, and each of
\* the two credential headers absent or present once
InboundHeaders ==
    {h \in [RelayNames -> SeqsUpTo(HeaderValues, MaxInVals)] :
        \A k \in {"Authorization", "Proxy-Authorization"} :
            h[k] \in {<<>>, <<"a">>}}

\* the headers an upstream host answers with
UpstreamHeaders ==
    {[EmptyHeader(RespNames) EXCEPT !["Content-Type"] = <<"a">>],
     [EmptyHeader(RespNames) EXCEPT !["Server"] = <<"a", "b">>]}

\* what the handlers before the relay left in the response header
WriterHeaders ==
    {EmptyHeader(RespNames), [EmptyHeader(RespNames) EXCEPT !["Server"] = <<"a">>]}

UpstreamStatuses == {200, 399, 400, 500}

UpstreamBodies ==
    {MakeBody(n) : n \in {0, 22, ErrBodyLimit - 1, ErrBodyLimit,
                          ErrBodyLimit + 1}}

\* ctx.Request.UserAgent()
UserAgent(h) == HeaderGet(h, "User-Agent")

\* stream(), lines 68-81: the header of the outbound request.  A request
\* made by http.NewRequest has an empty header.
OutboundHeader(in) ==
    LET h0 == EmptyHeader(RelayNames)
        h1 == IF UserAgent(in) # "" /\ HeaderGet(h0, "User-Agent") = ""
              THEN HeaderSet(h0, "User-Agent", UserAgent(in))
              ELSE h0
        h2 == HeaderDel(HeaderDel(h1, "Authorization"), "Proxy-Authorization")
    IN  mergeHttpHeader(h2, in)

StreamInit ==
    /\ spc = "start"
    /\ inHdr \in InboundHeaders
    /\ reqHdr = EmptyHeader(RelayNames)
    /\ reqSent = FALSE
    /\ upStatus = 0
    /\ upHdr = EmptyHeader(RespNames)
    /\ upBody = <<>>
    /\ respOpen = FALSE
    /\ wHdr \in WriterHeaders
    /\ wStatus = 0
    /\ wBody = <<>>

StreamIdle ==
    /\ spc = "idle"
    /\ inHdr = EmptyHeader(RelayNames)
    /\ reqHdr = EmptyHeader(RelayNames)
    /\ reqSent = FALSE
    /\ upStatus = 0
    /\ upHdr = EmptyHeader(RespNames)
    /\ upBody = <<>>
    /\ respOpen = FALSE
    /\ wHdr = EmptyHeader(RespNames)
    /\ wStatus = 0
    /\ wBody = <<>>

\* what a step of the relay leaves alone
StreamFrame == UNCHANGED <<mergeVars, authVars, actionVars, playlistVars>>

\* lines 68-72: http.NewRequest fails, the request is aborted with 500
StreamNewRequestFails ==
    /\ spc = "start"
    /\ wStatus' = StatusInternalServerError
    /\ spc' = "done"
    /\ UNCHANGED <<inHdr, reqHdr, reqSent, upStatus, upHdr, upBody, respOpen,
                   wHdr, wBody>>
    /\ StreamFrame

\* lines 68-81: the outbound request and its header
StreamBuildRequest ==
    /\ spc = "start"
    /\ reqHdr' = OutboundHeader(inHdr)
    /\ spc' = "built"
    /\ UNCHANGED <<inHdr, reqSent, upStatus, upHdr, upBody, respOpen,
                   wHdr, wStatus, wBody>>
    /\ StreamFrame

\* lines 83-87: client.Do fails (no response), the request is aborted with 500
StreamDoFails ==
    /\ spc = "built"
    /\ reqSent' = TRUE
    /\ wStatus' = StatusInternalServerError
    /\ spc' = "done"
    /\ UNCHANGED <<inHdr, reqHdr, upStatus, upHdr, upBody, respOpen,
                   wHdr, wBody>>
    /\ StreamFrame

\* lines 83-88: client.Do returns the upstream host's response
StreamDo ==
    /\ spc = "built"
    /\ reqSent' = TRUE
    /\ upStatus' \in UpstreamStatuses
    /\ upHdr' \in UpstreamHeaders
    /\ upBody' \in UpstreamBodies
    /\ respOpen' = TRUE
    /\ spc' = "responded"
    /\ UNCHANGED <<inHdr, reqHdr, wHdr, wStatus, wBody>>
    /\ StreamFrame

\* lines 92-115: an error status; the captured prefix is all the client gets.
\* The deferred resp.Body.Close() runs on the return.
StreamErrorStatus ==
    /\ spc = "responded"
    /\ upStatus >= 400
    /\ LET b == LimitReadAll(upBody, ErrBodyLimit)
       IN  /\ wHdr' = mergeHttpHeader(wHdr, upHdr)
           /\ wStatus' = upStatus
           /\ wBody' = IF Len(b) > 0 THEN wBody \o b ELSE wBody
    /\ respOpen' = FALSE
    /\ spc' = "done"
    /\ UNCHANGED <<inHdr, reqHdr, reqSent, upStatus, upHdr, upBody>>
    /\ StreamFrame

\* lines 117-123: any other status; io.Copy writes the whole body
StreamCopy ==
    /\ spc = "responded"
    /\ ~(upStatus >= 400)
    /\ wHdr' = mergeHttpHeader(wHdr, upHdr)
    /\ wStatus' = upStatus
    /\ wBody' = IoCopy(wBody, upBody)
    /\ respOpen' = FALSE
    /\ spc' = "done"
    /\ UNCHANGED <<inHdr, reqHdr, reqSent, upStatus, upHdr, upBody>>
    /\ StreamFrame

StreamNext ==
    \/ StreamNewRequestFails
    \/ StreamBuildRequest
    \/ StreamDoFails
    \/ StreamDo
    \/ StreamErrorStatus
    \/ StreamCopy

\* ----------------------- SpecAuth: authenticate and appAuthenticate
\* A url-encoded body is a sequence of tokens: the separators "&" and "=",
\* "%" for a percent sign that starts no valid escape, and otherwise runs
\* of plain characters ("username" and "password" the two field names, "u"
\* the proxy's user name, "p" its password, "x" anything else).

\* c.ProxyConfig.User.String(), c.ProxyConfig.Password.String()
ProxyUser == <<"u">>
ProxyPassword == <<"p">>

BodyPieces ==
    {<<>>,
     <<"username">>, <<"username", "=">>,
     <<"username", "=", "u">>, <<"username", "=", "x">>,
     <<"username", "=", "%">>,
     <<"password", "=">>,
     <<"password", "=", "p">>, <<"password", "=", "x">>,
     <<"x", "=", "u">>}

RECURSIVE JoinPieces(_)
JoinPieces(ps) ==
    IF ps = <<>> THEN <<>>
    ELSE IF Len(ps) = 1 THEN ps[1]
    ELSE ps[1] \o <<"&">> \o JoinPieces(Tail(ps))

RequestBodies == {JoinPieces(ps) : ps \in SeqsUpTo(BodyPieces, MaxPairs)}

\* the first place of s holding t, 0 when there is none
IndexOf(s, t) ==
    IF \E i \in 1..Len(s) : s[i] = t
    THEN CHOOSE i \in 1..Len(s) : s[i] = t /\ \A j \in 1..(i - 1) : s[j] # t
    ELSE 0

\* strings.Cut(s, t)
CutBefore(s, t) == IF IndexOf(s, t) = 0 THEN s ELSE SubSeq(s, 1, IndexOf(s, t) - 1)
CutAfter(s, t) == IF IndexOf(s, t) = 0 THEN <<>> ELSE SubSeq(s, IndexOf(s, t) + 1, Len(s))

\* url.QueryUnescape fails on a percent sign that starts no valid escape
UnescapeFails(s) == \E i \in 1..Len(s) : s[i] = "%"

\* url.ParseQuery(query), started from the values m and the error flag:
\* the pieces between "&" are taken in order; an empty piece is skipped; a
\* piece is cut at its first "="; a piece whose key or value does not
\* unescape sets the error and adds nothing; the others add their value to
\* their key's list.  Only the two keys the gate looks up are kept.
RECURSIVE ParseQueryFrom(_, _, _)
ParseQueryFrom(m, failed, query) ==
    IF query = <<>> THEN [m |-> m, err |-> failed]
    ELSE LET piece == CutBefore(query, "&")
             rest  == CutAfter(query, "&")
             key   == CutBefore(piece, "=")
             value == CutAfter(piece, "=")
         IN  IF piece = <<>> THEN ParseQueryFrom(m, failed, rest)
             ELSE IF UnescapeFails(key) \/ UnescapeFails(value)
                  THEN ParseQueryFrom(m, TRUE, rest)
             ELSE IF key = <<"username">>
                  THEN ParseQueryFrom([m EXCEPT !.username = Append(@, value)], failed, rest)
             ELSE IF key = <<"password">>
                  THEN ParseQueryFrom([m EXCEPT !.password = Append(@, value)], failed, rest)
             ELSE ParseQueryFrom(m, failed, rest)

ParseQuery(query) == ParseQueryFrom([username |-> <<>>, password |-> <<>>], FALSE, query)

\* a comparison that rejects only when both values differ
CredentialsMismatchBoth(username, password) ==
    ProxyUser # username /\ ProxyPassword # password

\* Lines 170 and 192: the comparison both gates make
CredentialsMismatch(username, password) ==
    ProxyUser # username \/ ProxyPassword # password

\* the first value of a form field, "" when the field has none
FirstValue(vs) == IF Len(vs) > 0 THEN vs[1] ELSE <<>>

\* Lines 159-172: the status authenticate aborts the request with on the
\* form values it binds, 0 when it lets the request pass.  ctx.Bind binds
\* the form: it fails when the values do not parse, and the two fields of
\* authRequest are `binding:"required"`, so it fails as well when the first
\* value of either is missing or empty.
AuthenticateStatus(query) ==
    LET r == ParseQuery(query)
        Username == FirstValue(r.m.username)
        Password == FirstValue(r.m.password)
    IN  IF r.err \/ Username = <<>> \/ Password = <<>> THEN StatusBadRequest
        ELSE IF CredentialsMismatch(Username, Password) THEN StatusUnauthorized
        ELSE 0

\* Lines 182-194: the status appAuthenticate aborts the request with on the
\* body contents it read, 0 when it lets the request pass.
AppAuthStatus(contents) ==
    LET r == ParseQuery(contents)
        given == r.m
    IN  IF r.err THEN StatusInternalServerError
        ELSE IF Len(given.username) = 0 \/ Len(given.password) = 0 THEN StatusBadRequest
        ELSE IF CredentialsMismatch(given.username[1], given.password[1])
             THEN StatusUnauthorized
        ELSE 0

\* a gate that never puts the body back
AppAuthBodyNeverRestored(contents) == <<>>

\* What the request body yields when appAuthenticate returns.  ReadAll has
\* drained it.  The 500 and 400 paths return at once (lines 185, 189); the
\* 401 abort does not return, so that path and the accepting one reach
\* line 196, which puts the contents back.
AppAuthBodyAfter(contents) ==
    IF AppAuthStatus(contents) \in {StatusInternalServerError, StatusBadRequest}
    THEN <<>>
    ELSE contents

\* a request on a route guarded by appAuthenticate carries its credentials
\* in the body; one on a route guarded by authenticate carries them in the
\* form values
AuthInit ==
    /\ apc = "start"
    /\ gate \in {"authenticate", "appAuthenticate"}
    /\ IF gate = "appAuthenticate"
       THEN sentBody \in RequestBodies /\ rawQuery = <<>>
       ELSE rawQuery \in RequestBodies /\ sentBody = <<>>
    /\ rBody = sentBody
    /\ aRead = FALSE
    /\ aStatus = 0
    /\ aborted = FALSE
    /\ handlerRan = FALSE
    /\ handlerRead = <<>>

AuthIdle ==
    /\ apc = "idle"
    /\ gate = "appAuthenticate"
    /\ rawQuery = <<>>
    /\ sentBody = <<>>
    /\ rBody = <<>>
    /\ aRead = FALSE
    /\ aStatus = 0
    /\ aborted = FALSE
    /\ handlerRan = FALSE
    /\ handlerRead = <<>>

\* what a step of the gate leaves alone
AuthFrame ==
    UNCHANGED <<mergeVars, streamVars, actionVars, playlistVars, gate, rawQuery>>

\* lines 164-173: authenticate binds the form values and decides; it does
\* not touch the body
Authenticate ==
    /\ apc = "start"
    /\ gate = "authenticate"
    /\ aStatus' = AuthenticateStatus(rawQuery)
    /\ aborted' = (AuthenticateStatus(rawQuery) # 0)
    /\ apc' = "returned"
    /\ UNCHANGED <<sentBody, rBody, aRead, handlerRan, handlerRead>>
    /\ AuthFrame

\* lines 176-180: ioutil.ReadAll fails after n bytes; the bytes read are gone
AppAuthReadFails ==
    /\ apc = "start"
    /\ gate = "appAuthenticate"
    /\ \E n \in 0..Len(rBody) : rBody' = SubSeq(rBody, n + 1, Len(rBody))
    /\ aStatus' = StatusInternalServerError
    /\ aborted' = TRUE
    /\ apc' = "returned"
    /\ UNCHANGED <<sentBody, aRead, handlerRan, handlerRead>>
    /\ AuthFrame

\* lines 176-196: the body is read to its end and the gate decides
AppAuthenticate ==
    /\ apc = "start"
    /\ gate = "appAuthenticate"
    /\ aRead' = TRUE
    /\ rBody' = AppAuthBodyAfter(rBody)
    /\ aStatus' = AppAuthStatus(rBody)
    /\ aborted' = (AppAuthStatus(rBody) # 0)
    /\ apc' = "returned"
    /\ UNCHANGED <<sentBody, handlerRan, handlerRead>>
    /\ AuthFrame

\* gin runs the next handler of the chain unless the request was aborted.
\* The handler reads the request body to its end.  On an API route it is
\* the handler that calls Client.Action: the dispatcher is entered.
NextHandlerAPI ==
    /\ apc = "returned"
    /\ ~aborted
    /\ handlerRan' = TRUE
    /\ handlerRead' = rBody
    /\ rBody' = <<>>
    /\ apc' = "handled"
    /\ pc' = "start"
    /\ UNCHANGED <<gate, rawQuery, sentBody, aRead, aStatus, aborted>>
    /\ UNCHANGED <<action, q, cfg, sess, nCat, calls, idx, inFlight, returns,
                   allSeries, successCount, errorCount, respBody, httpcode,
                   err, retLine, categoriesErr, rawKind, rawSeries,
                   openBodies>>
    /\ UNCHANGED <<mergeVars, streamVars, playlistVars>>

\* On a media route the chained handler is the relay: stream() is entered.
NextHandlerRelay ==
    /\ apc = "returned"
    /\ ~aborted
    /\ handlerRan' = TRUE
    /\ handlerRead' = rBody
    /\ rBody' = <<>>
    /\ apc' = "handled"
    /\ spc' = "start"
    /\ UNCHANGED <<gate, rawQuery, sentBody, aRead, aStatus, aborted>>
    /\ UNCHANGED <<inHdr, reqHdr, reqSent, upStatus, upHdr, upBody, respOpen,
                   wHdr, wStatus, wBody>>
    /\ UNCHANGED <<mergeVars, actionVars, playlistVars>>

AuthNext ==
    \/ Authenticate
    \/ AppAuthReadFails
    \/ AppAuthenticate
    \/ NextHandlerAPI
    \/ NextHandlerRelay

\* ------------------------------------------- SpecAction: Client.Action
\* Strings are sequences of one-character strings here; E is "".
E == <<>>

getLiveCategories == "get_live_categories"
getLiveStreams == "get_live_streams"
getVodCategories == "get_vod_categories"
getVodStreams == "get_vod_streams"
getVodInfo == "get_vod_info"
getSeriesCategories == "get_series_categories"
getSeries == "get_series"
getSerieInfo == "get_series_info"
getShortEPG == "get_short_epg"
getSimpleDataTable == "get_simple_data_table"

\* the cases of the switch of line 107 before its default
EnumeratedActions ==
    {getLiveCategories, getLiveStreams, getVodCategories, getVodStreams,
     getVodInfo, getSeriesCategories, getSeries, getSerieInfo, getShortEPG,
     getSimpleDataTable}

\* the action names a request may carry: the ten, and three others
ActionNames == EnumeratedActions \cup {"", "get_account_info", "GET_SERIES"}

ParamNames == {"category_id", "vod_id", "series_id", "stream_id", "limit"}

Digits == <<"0", "1", "2", "3", "4", "5", "6", "7", "8", "9">>

IsDigit(c) == \E i \in 1..10 : Digits[i] = c

DigitValue(c) == (CHOOSE i \in 1..10 : Digits[i] = c) - 1

\* the value of a run of digits
RECURSIVE DigitsValue(_)
DigitsValue(ds) ==
    IF ds = <<>> THEN 0
    ELSE 10 * DigitsValue(SubSeq(ds, 1, Len(ds) - 1)) + DigitValue(ds[Len(ds)])

\* a parse that takes whatever is not a number for 0
AtoiLenient(str) ==
    LET signed == str # <<>> /\ str[1] \in {"+", "-"}
        ds == IF signed THEN Tail(str) ELSE str
    IN  IF ds = <<>> \/ \E i \in 1..Len(ds) : ~IsDigit(ds[i])
        THEN [ok |-> TRUE, n |-> 0]
        ELSE [ok |-> TRUE,
              n |-> IF str[1] = "-" THEN 0 - DigitsValue(ds) ELSE DigitsValue(ds)]

\* strconv.Atoi(str): an optional sign, then one digit or more and nothing
\* else.  (The strings of the model are too short to leave the int range.)
Atoi(str) ==
    LET signed == str # <<>> /\ str[1] \in {"+", "-"}
        ds == IF signed THEN Tail(str) ELSE str
    IN  IF ds = <<>> \/ \E i \in 1..Len(ds) : ~IsDigit(ds[i])
        THEN [ok |-> FALSE, n |-> 0]
        ELSE [ok |-> TRUE,
              n |-> IF str[1] = "-" THEN 0 - DigitsValue(ds) ELSE DigitsValue(ds)]

\* fmt.Sprint of a natural number
RECURSIVE Itoa(_)
Itoa(n) == IF n < 10 THEN <<Digits[n + 1]>> ELSE Itoa(n \div 10) \o <<Digits[(n % 10) + 1]>>

\* the values of err and of respBody
NilErr == [kind |-> "nil"]
MissingErr(p) == [kind |-> "missing", param |-> p]
AtoiErr(str) == [kind |-> "atoi", str |-> str]
BackendErr(call) == [kind |-> "backend", call |-> call]
NilBody == [kind |-> "nil"]
Payload(call) == [kind |-> "payload", call |-> call]
SeriesBody(list) == [kind |-> "series", list |-> list]

\* one call to the backend: the operation, its string argument, its limit
Call(op, arg, limit) == [op |-> op, arg |-> arg, limit |-> limit]

\* a validation that reports a missing parameter as a server error
validateParamsWrongCode(u, params) ==
    IF \E i \in 1..Len(params) : Len(u[params[i]]) < 1
    THEN LET i == CHOOSE i \in 1..Len(params) :
                      /\ Len(u[params[i]]) < 1
                      /\ \A j \in 1..(i - 1) : ~(Len(u[params[j]]) < 1)
         IN  [code |-> StatusInternalServerError, err |-> MissingErr(params[i])]
    ELSE [code |-> 0, err |-> NilErr]

\* validateParams(u, params...): the first parameter with no value decides
validateParams(u, params) ==
    IF \E i \in 1..Len(params) : Len(u[params[i]]) < 1
    THEN LET i == CHOOSE i \in 1..Len(params) :
                      /\ Len(u[params[i]]) < 1
                      /\ \A j \in 1..(i - 1) : ~(Len(u[params[j]]) < 1)
         IN  [code |-> StatusBadRequest, err |-> MissingErr(params[i])]
    ELSE [code |-> 0, err |-> NilErr]

\* the return statement after each validation (lines 127, 348, 356, 370)
ValidationReturnLine(a) ==
    CASE a = getVodInfo -> 127
      [] a = getSerieInfo -> 348
      [] a = getShortEPG -> 356
      [] a = getSimpleDataTable -> 370
      [] OTHER -> 0

\* the parameters each action validates (lines 125, 346, 354, 368)
RequiredParams(a) ==
    CASE a = getVodInfo -> <<"vod_id">>
      [] a = getSerieInfo -> <<"series_id">>
      [] a = getShortEPG -> <<"stream_id">>
      [] a = getSimpleDataTable -> <<"stream_id">>
      [] OTHER -> <<>>

\* a category filter that is always empty
CategoryIDIgnored(u) == E

\* lines 111-114, 119-122, 139-142: the first category_id, "" when none
CategoryID(u) == IF Len(u["category_id"]) > 0 THEN u["category_id"][1] ELSE E

\* a test that takes an empty limit for a limit given
LimitGivenWhenPresent(u) == Len(u["limit"]) > 0

\* lines 358-365: whether the limit is parsed, and what the parse gives.
\* A limit is given when the parameter is there and not empty.
LimitGiven(u) == Len(u["limit"]) > 0 /\ u["limit"][1] # E
LimitParse(u) == IF LimitGiven(u) THEN Atoi(u["limit"][1]) ELSE [ok |-> TRUE, n |-> 0]

\* the actions that make one call to the backend and return its answer
SingleCallActions == EnumeratedActions \ {getSeries}

\* the one backend call of such an action
BackendCall(a, u) ==
    CASE a = getLiveCategories -> Call("GetLiveCategories", E, 0)
      [] a = getLiveStreams -> Call("GetLiveStreams", CategoryID(u), 0)
      [] a = getVodCategories -> Call("GetVideoOnDemandCategories", E, 0)
      [] a = getVodStreams -> Call("GetVideoOnDemandStreams", CategoryID(u), 0)
      [] a = getVodInfo -> Call("GetVideoOnDemandInfo", u["vod_id"][1], 0)
      [] a = getSeriesCategories -> Call("GetSeriesCategories", E, 0)
      [] a = getSerieInfo -> Call("GetSeriesInfo", u["series_id"][1], 0)
      [] a = getShortEPG -> Call("GetShortEPG", u["stream_id"][1], LimitParse(u).n)
      [] a = getSimpleDataTable -> Call("GetEPG", u["stream_id"][1], 0)

\* lines 102-105
Protocol(config) == IF config.HTTPS THEN "https" ELSE "http"

\* a login answer that hands out the backend's own credentials
loginBackendCredentials(session, proxyUser, proxyPassword, proxyURL, proxyPort, protocol) ==
    [kind |-> "login",
     UserInfo |-> session.UserInfo,
     ServerInfo |-> [URL |-> proxyURL, Port |-> proxyPort, HTTPSPort |-> proxyPort,
                     Protocol |-> protocol, RTMPPort |-> proxyPort,
                     Timezone |-> session.ServerInfo.Timezone,
                     TimestampNow |-> session.ServerInfo.TimestampNow,
                     TimeNow |-> session.ServerInfo.TimeNow]]

\* Client.login
login(session, proxyUser, proxyPassword, proxyURL, proxyPort, protocol) ==
    [kind |-> "login",
     UserInfo |-> [Username |-> proxyUser,
                   Password |-> proxyPassword,
                   Message |-> session.UserInfo.Message,
                   Auth |-> session.UserInfo.Auth,
                   Status |-> session.UserInfo.Status,
                   ExpDate |-> session.UserInfo.ExpDate,
                   IsTrial |-> session.UserInfo.IsTrial,
                   ActiveConnections |-> session.UserInfo.ActiveConnections,
                   CreatedAt |-> session.UserInfo.CreatedAt,
                   MaxConnections |-> session.UserInfo.MaxConnections,
                   AllowedOutputFormats |-> session.UserInfo.AllowedOutputFormats],
     ServerInfo |-> [URL |-> proxyURL,
                     Port |-> proxyPort,
                     HTTPSPort |-> proxyPort,
                     Protocol |-> protocol,
                     RTMPPort |-> proxyPort,
                     Timezone |-> session.ServerInfo.Timezone,
                     TimestampNow |-> session.ServerInfo.TimestampNow,
                     TimeNow |-> session.ServerInfo.TimeNow]]

\* line 374: protocol+"://"+config.HostConfig.Hostname
ProxyURL(config) == <<Protocol(config), "://", config.Hostname>>

\* the configurations of the proxy
ProxyConfigs ==
    {[User |-> ProxyUser, Password |-> ProxyPassword, HTTPS |-> FALSE,
      Hostname |-> "proxy.example", AdvertisedPort |-> 8080],
     [User |-> ProxyUser, Password |-> ProxyPassword, HTTPS |-> TRUE,
      Hostname |-> "tv.example", AdvertisedPort |-> 443]}

\* what the backend reported when the session was opened
BackendSessions ==
    {[UserInfo |-> [Username |-> <<"b", "u">>, Password |-> <<"b", "p">>,
                    Message |-> "welcome", Auth |-> 1, Status |-> "Active",
                    ExpDate |-> 1900000000, IsTrial |-> 0, ActiveConnections |-> 1,
                    CreatedAt |-> 1600000000, MaxConnections |-> 2,
                    AllowedOutputFormats |-> <<"m3u8", "ts">>],
      ServerInfo |-> [URL |-> <<"http", "://", "backend.example">>, Port |-> 80,
                      HTTPSPort |-> 8443, Protocol |-> "http", RTMPPort |-> 1935,
                      Timezone |-> "UTC", TimestampNow |-> 1700000000,
                      TimeNow |-> "2023-11-14 22:13:20"]],
     [UserInfo |-> [Username |-> <<"b", "u">>, Password |-> <<"b", "p">>,
                    Message |-> "", Auth |-> 0, Status |-> "Expired",
                    ExpDate |-> 1500000000, IsTrial |-> 1, ActiveConnections |-> 0,
                    CreatedAt |-> 1400000000, MaxConnections |-> 1,
                    AllowedOutputFormats |-> <<"ts">>],
      ServerInfo |-> [URL |-> <<"https", "://", "backend.example">>, Port |-> 80,
                      HTTPSPort |-> 443, Protocol |-> "https", RTMPPort |-> 1935,
                      Timezone |-> "Europe/Paris", TimestampNow |-> 1700003600,
                      TimeNow |-> "2023-11-14 23:13:20"]]}

\* ---- the raw all-series answer (lines 150-246, 292-335)
\* A decoded JSON value: a string, a number (held in tenths, so that 7.5 is
\* 75), anything else (null, a boolean, an object), or no value at all.
JAbsent == [t |-> "absent", s |-> E, n |-> 0]
JStr(str) == [t |-> "str", s |-> str, n |-> 0]
JNum(tenths) == [t |-> "num", s |-> E, n |-> tenths]
JOther == [t |-> "other", s |-> E, n |-> 0]

\* int(v) of a float64: the fraction is cut off
FloatToInt(tenths) ==
    IF tenths >= 0 THEN tenths \div 10 ELSE 0 - ((0 - tenths) \div 10)

\* fmt.Sprintf("%v", v)
FormatV(v) ==
    CASE v.t = "str" -> v.s
      [] v.t = "num" ->
            LET a == IF v.n >= 0 THEN v.n ELSE 0 - v.n
                sign == IF v.n >= 0 THEN E ELSE <<"-">>
            IN  IF a % 10 = 0 THEN sign \o Itoa(a \div 10)
                ELSE sign \o Itoa(a \div 10) \o <<".">> \o Itoa(a % 10)
      [] OTHER -> <<"<", "n", "i", "l", ">">>

\* the records of a raw answer
RawRecords ==
    {[name |-> JStr(<<"a">>), cover |-> JStr(<<"c">>), series_id |-> JNum(10),
      category_id |-> JStr(<<"5">>), rating |-> JStr(<<"7">>)],
     [name |-> JAbsent, cover |-> JOther, series_id |-> JStr(<<"1", "2">>),
      category_id |-> JNum(50), rating |-> JNum(75)],
     [name |-> JStr(<<"b">>), cover |-> JAbsent, series_id |-> JStr(<<"x">>),
      category_id |-> JStr(E), rating |-> JStr(<<"a">>)],
     [name |-> JNum(30), cover |-> JStr(E), series_id |-> JOther,
      category_id |-> JAbsent, rating |-> JAbsent]}

RawLists == SeqsUpTo(RawRecords, MaxRawSeries)

\* xtream.SeriesInfo{}.  CategoryID is a pointer: set says it is not nil.
\* (Plot, Cast, Director, Genre and ReleaseDate are filled by the rule of
\* Name and Cover and are left out.)
ZeroSerie ==
    [Name |-> E, Cover |-> E, SeriesID |-> 0,
     CategoryID |-> [set |-> FALSE, val |-> 0], Rating |-> 0]

\* lines 179-184, 310-315: a string field is copied, anything else is not
StringField(v) == IF v.t = "str" THEN v.s ELSE E

\* lines 185-196, 316-327: series_id as a number or as a decimal string
SeriesIDField(v) ==
    CASE v.t = "num" -> FloatToInt(v.n)
      [] v.t = "str" -> IF v.s # E /\ Atoi(v.s).ok THEN Atoi(v.s).n ELSE 0
      [] OTHER -> 0

\* lines 199-212: category_id as a number or as a decimal string
CategoryIDField(v) ==
    CASE v.t = "num" -> [set |-> TRUE, val |-> FloatToInt(v.n)]
      [] v.t = "str" -> IF v.s # E /\ Atoi(v.s).ok
                        THEN [set |-> TRUE, val |-> Atoi(v.s).n]
                        ELSE [set |-> FALSE, val |-> 0]
      [] OTHER -> [set |-> FALSE, val |-> 0]

\* lines 230-238: rating as a decimal string or as a number
RatingField(v) ==
    CASE v.t = "str" -> IF Atoi(v.s).ok THEN Atoi(v.s).n ELSE 0
      [] v.t = "num" -> FloatToInt(v.n)
      [] OTHER -> 0

\* lines 176-240: one raw record converted
ConvertSerie(raw) ==
    [Name |-> StringField(raw.name),
     Cover |-> StringField(raw.cover),
     SeriesID |-> SeriesIDField(raw.series_id),
     CategoryID |-> CategoryIDField(raw.category_id),
     Rating |-> RatingField(raw.rating)]

\* a conversion that leaves out the records without a name
RECURSIVE ConvertAllNamed(_)
ConvertAllNamed(raws) ==
    IF raws = <<>> THEN <<>>
    ELSE (IF Head(raws).name.t = "str" THEN <<ConvertSerie(Head(raws))>> ELSE <<>>)
             \o ConvertAllNamed(Tail(raws))

\* lines 174-241: every record converted, in order
ConvertAll(raws) == [i \in 1..Len(raws) |-> ConvertSerie(raws[i])]

\* lines 309-328: one raw record of the wanted category converted
FilterSerie(raw) ==
    [ZeroSerie EXCEPT !.Name = StringField(raw.name),
                      !.Cover = StringField(raw.cover),
                      !.SeriesID = SeriesIDField(raw.series_id)]

\* lines 304-331: the records whose category_id prints as categoryID
RECURSIVE FilterAll(_, _)
FilterAll(raws, categoryID) ==
    IF raws = <<>> THEN <<>>
    ELSE LET raw == Head(raws)
             keep == raw.category_id.t # "absent" /\ FormatV(raw.category_id) = categoryID
         IN  (IF keep THEN <<FilterSerie(raw)>> ELSE <<>>)
                 \o FilterAll(Tail(raws), categoryID)

\* ---- the backend's series
\* the records of series category c: none, one or two
SeriesOf(c) ==
    [j \in 1..(c % 3) |->
        [Name |-> Itoa(c) \o <<"-">> \o Itoa(j), Cover |-> E, SeriesID |-> 10 * c + j,
         CategoryID |-> [set |-> TRUE, val |-> c], Rating |-> 0]]

\* what GetSeries(categoryID) answers when it succeeds
BackendSeries(categoryID) ==
    IF Atoi(categoryID).ok /\ Atoi(categoryID).n >= 0
    THEN SeriesOf(Atoi(categoryID).n)
    ELSE <<>>

\* lines 150-153, 292-295: the raw all-series request
RawCall == Call("http.Get player_api.php?action=get_series", E, 0)

\* the ways the raw call fails: no connection (http.Get returns an error
\* and no response), a status other than 200, a body that cannot be read,
\* a body that is no JSON array of objects
RawFailures == {"connect", "status", "read", "parse"}

\* lines 153-157, 295-297: a response, whose body is open, comes with every
\* outcome of http.Get but the connection error
BodiesAfterGet(open, kind) == IF kind = "connect" THEN open ELSE open + 1

\* deferred calls that never run
DeferredCloseSkipped(open) == open

\* lines 157, 297: the deferred resp.Body.Close() calls run when Action
\* returns, whichever return statement it leaves by
DeferredClose(open) == 0

\* a dispatcher that goes on after the category list failed
AfterCategoriesContinue(e) == "loop"

\* lines 256-259: Action returns when the category list could not be
\* fetched and enters the loop otherwise
AfterCategories(e) == IF e # NilErr THEN "done" ELSE "loop"

\* a loop that asks for a failed category again
AfterFailedFetchRetry(next, failed) == failed

\* lines 267-272: after a failed fetch the loop continues with the next
\* category
AfterFailedFetch(next, failed) == next

\* a loop that starts every fetch without waiting for the one before
CanStartFetchAtOnce(outstanding) == TRUE

\* lines 265-266: c.GetSeries is a blocking call made by the loop itself, so
\* the next fetch starts only when none is outstanding
CanStartFetch(outstanding) == outstanding = {}

\* a merge that keeps only the last category's records
MergeFetchedOverwrite(all, categorySeries) ==
    IF Len(categorySeries) > 0 THEN categorySeries ELSE all

\* lines 273-274: the records of a fetched category are appended
MergeFetched(all, categorySeries) ==
    IF Len(categorySeries) > 0 THEN all \o categorySeries ELSE all

\* ---- the requests
ValueLists(p) ==
    CASE p = "category_id" -> {<<>>, <<E>>, <<<<"5">>>>, <<<<"2">>, E>>}
      [] p = "limit" -> {<<>>, <<<<"a", "b", "c">>>>}
                            \cup {<<v>> : v \in SeqsUpTo({"7", "a", "-"}, MaxLimitLen)}
      [] OTHER -> {<<>>, <<E>>, <<<<"7">>>>}

\* the parameters an action reads
ParamsRead(a) ==
    CASE a \in {getVodInfo} -> {"vod_id"}
      [] a \in {getSerieInfo} -> {"series_id"}
      [] a \in {getShortEPG} -> {"stream_id", "limit"}
      [] a \in {getSimpleDataTable} -> {"stream_id"}
      [] OTHER -> {"category_id"}

\* the value lists of parameter p in the queries sent with action a: every
\* list for a parameter the action reads, none for the others
ListsFor(a, p) == IF p \in ParamsRead(a) THEN ValueLists(p) ELSE {<<>>}

\* the queries sent with an action (url.Values)
QueriesFor(a) ==
    [category_id : ListsFor(a, "category_id"),
     vod_id : ListsFor(a, "vod_id"),
     series_id : ListsFor(a, "series_id"),
     stream_id : ListsFor(a, "stream_id"),
     limit : ListsFor(a, "limit")]

ActionIdle ==
    /\ pc = "idle"
    /\ action = ""
    /\ q = [p \in ParamNames |-> <<>>]
    /\ cfg = CHOOSE c \in ProxyConfigs : ~c.HTTPS
    /\ sess = CHOOSE b \in BackendSessions : b.UserInfo.Auth = 1
    /\ nCat = 0
    /\ calls = <<>>
    /\ idx = 1
    /\ inFlight = {}
    /\ returns = <<>>
    /\ allSeries = <<>>
    /\ successCount = 0
    /\ errorCount = 0
    /\ respBody = NilBody
    /\ httpcode = 0
    /\ err = NilErr
    /\ retLine = 0
    /\ categoriesErr = NilErr
    /\ rawKind = "none"
    /\ rawSeries = <<>>
    /\ openBodies = 0

\* Action is entered: nothing returned yet, no call made
ActionEntry ==
    /\ pc = "start"
    /\ calls = <<>>
    /\ idx = 1
    /\ inFlight = {}
    /\ returns = <<>>
    /\ allSeries = <<>>
    /\ successCount = 0
    /\ errorCount = 0
    /\ respBody = NilBody
    /\ httpcode = 0
    /\ err = NilErr
    /\ retLine = 0
    /\ categoriesErr = NilErr
    /\ rawKind = "none"
    /\ rawSeries = <<>>
    /\ openBodies = 0

ActionInit ==
    /\ action \in ActionNames
    /\ q \in QueriesFor(action)
    /\ cfg \in ProxyConfigs
    /\ sess \in BackendSessions
    /\ nCat \in 0..MaxCategories
    /\ ActionEntry

\* the aggregation taken alone: get_series without a category filter
FanOutInit ==
    /\ action = getSeries
    /\ q \in {u \in QueriesFor(getSeries) : CategoryID(u) = E}
    /\ cfg = CHOOSE c \in ProxyConfigs : ~c.HTTPS
    /\ sess = CHOOSE b \in BackendSessions : b.UserInfo.Auth = 1
    /\ nCat \in 0..MaxFanOutCategories
    /\ ActionEntry

\* get_series taken alone, with and without a category filter
SeriesInit ==
    /\ action = getSeries
    /\ q \in QueriesFor(getSeries)
    /\ cfg = CHOOSE c \in ProxyConfigs : ~c.HTTPS
    /\ sess = CHOOSE b \in BackendSessions : b.UserInfo.Auth = 1
    /\ nCat \in 0..MaxCategories
    /\ ActionEntry

\* what a step of Action leaves alone
SeriesFrame ==
    UNCHANGED <<mergeVars, streamVars, authVars, playlistVars, action, q, cfg,
                sess, nCat>>

\* what a step leaves alone that makes no raw call, returns with no
\* response body open and is not the fetch of the category list
ActionFrame ==
    /\ SeriesFrame
    /\ UNCHANGED <<categoriesErr, rawKind, rawSeries, openBodies>>

\* lines 125-128, 346-349, 354-357, 368-371: a required parameter is missing
ActValidationFails ==
    /\ pc = "start"
    /\ action \in EnumeratedActions
    /\ LET v == validateParams(q, RequiredParams(action))
       IN  /\ v.err # NilErr
           /\ httpcode' = v.code
           /\ err' = v.err
    /\ pc' = "done"
    /\ retLine' = ValidationReturnLine(action)
    /\ UNCHANGED <<calls, idx, inFlight, returns, allSeries, successCount,
                   errorCount, respBody>>
    /\ ActionFrame

\* lines 358-365: the limit does not parse
ActLimitFails ==
    /\ pc = "start"
    /\ action = getShortEPG
    /\ validateParams(q, RequiredParams(action)).err = NilErr
    /\ ~LimitParse(q).ok
    /\ err' = AtoiErr(q["limit"][1])
    /\ httpcode' = StatusInternalServerError
    /\ pc' = "done"
    /\ retLine' = 363
    /\ UNCHANGED <<calls, idx, inFlight, returns, allSeries, successCount,
                   errorCount, respBody>>
    /\ ActionFrame

\* lines 108-137, 345-372: the actions that make one call to the backend
\* and return its answer, or its error
ActSingleCall ==
    /\ pc = "start"
    /\ action \in SingleCallActions
    /\ validateParams(q, RequiredParams(action)).err = NilErr
    /\ action = getShortEPG => LimitParse(q).ok
    /\ LET call == BackendCall(action, q)
       IN  /\ calls' = Append(calls, call)
           /\ \E ok \in BOOLEAN :
                /\ respBody' = IF ok THEN Payload(call) ELSE NilBody
                /\ err' = IF ok THEN NilErr ELSE BackendErr(call)
    /\ pc' = "done"
    /\ retLine' = 377
    /\ UNCHANGED <<idx, inFlight, returns, allSeries, successCount, errorCount,
                   httpcode>>
    /\ ActionFrame

\* lines 373-374: any other action gets the login answer
ActLogin ==
    /\ pc = "start"
    /\ action \notin EnumeratedActions
    /\ respBody' = login(sess, cfg.User, cfg.Password, ProxyURL(cfg),
                         cfg.AdvertisedPort, Protocol(cfg))
    /\ err' = NilErr
    /\ pc' = "done"
    /\ retLine' = 377
    /\ UNCHANGED <<calls, idx, inFlight, returns, allSeries, successCount,
                   errorCount, httpcode>>
    /\ ActionFrame

\* lines 146-246: no category; the raw all-series call answers 200 with a
\* JSON array, which is converted and returned
SeriesRawOk ==
    /\ pc = "start"
    /\ action = getSeries
    /\ CategoryID(q) = E
    /\ calls' = Append(calls, RawCall)
    /\ rawSeries' \in RawLists
    /\ respBody' = SeriesBody(ConvertAll(rawSeries'))
    /\ httpcode' = 0
    /\ err' = NilErr
    /\ pc' = "done"
    /\ retLine' = 245
    /\ rawKind' = "ok"
    /\ openBodies' = DeferredClose(BodiesAfterGet(openBodies, "ok"))
    /\ UNCHANGED <<idx, inFlight, returns, allSeries, successCount, errorCount,
                   categoriesErr>>
    /\ SeriesFrame

\* lines 153-254: the raw call fails (no connection, a status other than
\* 200, a body that cannot be read or is no JSON array)
SeriesRawFails ==
    /\ pc = "start"
    /\ action = getSeries
    /\ CategoryID(q) = E
    /\ calls' = Append(calls, RawCall)
    /\ \E kind \in RawFailures :
        /\ rawKind' = kind
        /\ openBodies' = BodiesAfterGet(openBodies, kind)
    /\ pc' = "fallback"
    /\ UNCHANGED <<retLine, idx, inFlight, returns, allSeries, successCount, errorCount,
                   respBody, httpcode, err, categoriesErr, rawSeries>>
    /\ SeriesFrame

\* lines 255-259: the category list cannot be fetched
SeriesCategoriesFail ==
    /\ pc = "fallback"
    /\ calls' = Append(calls, Call("GetSeriesCategories", E, 0))
    /\ categoriesErr' = BackendErr(Call("GetSeriesCategories", E, 0))
    /\ respBody' = NilBody
    /\ httpcode' = StatusInternalServerError
    /\ err' = categoriesErr'
    /\ pc' = AfterCategories(categoriesErr')
    /\ retLine' = 258
    /\ openBodies' = DeferredClose(openBodies)
    /\ UNCHANGED <<idx, inFlight, returns, allSeries, successCount, errorCount,
                   rawKind, rawSeries>>
    /\ SeriesFrame

\* lines 255-263: the category list is fetched
SeriesCategoriesOk ==
    /\ pc = "fallback"
    /\ calls' = Append(calls, Call("GetSeriesCategories", E, 0))
    /\ categoriesErr' = NilErr
    /\ allSeries' = <<>>
    /\ successCount' = 0
    /\ errorCount' = 0
    /\ idx' = 1
    /\ pc' = AfterCategories(categoriesErr')
    /\ UNCHANGED <<retLine, inFlight, returns, respBody, httpcode, err,
                   rawKind, rawSeries, openBodies>>
    /\ SeriesFrame

\* lines 265-266: the loop calls c.GetSeries for its next category
FetchStart ==
    /\ pc = "loop"
    /\ idx <= nCat
    /\ CanStartFetch(inFlight)
    /\ calls' = Append(calls, Call("GetSeries", Itoa(idx), 0))
    /\ inFlight' = inFlight \cup {idx}
    /\ idx' = idx + 1
    /\ UNCHANGED <<retLine, pc, returns, allSeries, successCount, errorCount, respBody,
                   httpcode, err>>
    /\ ActionFrame

\* lines 266-272: the fetch returns an error; the category is skipped
FetchFails ==
    /\ pc = "loop"
    /\ \E c \in inFlight :
        /\ inFlight' = inFlight \ {c}
        /\ returns' = Append(returns, [cat |-> Itoa(c), ok |-> FALSE])
        /\ idx' = AfterFailedFetch(idx, c)
    /\ errorCount' = errorCount + 1
    /\ UNCHANGED <<retLine, pc, calls, allSeries, successCount, respBody, httpcode, err>>
    /\ ActionFrame

\* lines 266-279: the fetch returns the category's records
FetchOk ==
    /\ pc = "loop"
    /\ \E c \in inFlight :
        /\ inFlight' = inFlight \ {c}
        /\ returns' = Append(returns, [cat |-> Itoa(c), ok |-> TRUE])
        /\ allSeries' = MergeFetched(allSeries, SeriesOf(c))
        /\ successCount' = IF Len(SeriesOf(c)) > 0 THEN successCount + 1
                           ELSE successCount
    /\ UNCHANGED <<retLine, pc, calls, idx, errorCount, respBody, httpcode, err>>
    /\ ActionFrame

\* lines 280-282, 377: every category was fetched; allSeries is returned
SeriesLoopDone ==
    /\ pc = "loop"
    /\ idx > nCat
    /\ inFlight = {}
    /\ respBody' = SeriesBody(allSeries)
    /\ pc' = "done"
    /\ retLine' = 377
    /\ openBodies' = DeferredClose(openBodies)
    /\ UNCHANGED <<calls, idx, inFlight, returns, allSeries, successCount,
                   errorCount, httpcode, err, categoriesErr, rawKind,
                   rawSeries>>
    /\ SeriesFrame

\* lines 284-286, 339-343: a category is given and its fetch succeeds
SeriesDirectOk ==
    /\ pc = "start"
    /\ action = getSeries
    /\ CategoryID(q) # E
    /\ calls' = Append(calls, Call("GetSeries", CategoryID(q), 0))
    /\ respBody' = SeriesBody(BackendSeries(CategoryID(q)))
    /\ err' = NilErr
    /\ pc' = "done"
    /\ retLine' = 377
    /\ returns' = Append(returns, [cat |-> CategoryID(q), ok |-> TRUE])
    /\ UNCHANGED <<idx, inFlight, allSeries, successCount, errorCount,
                   httpcode>>
    /\ ActionFrame

\* lines 284-293: a category is given and its fetch fails
SeriesDirectFails ==
    /\ pc = "start"
    /\ action = getSeries
    /\ CategoryID(q) # E
    /\ calls' = Append(calls, Call("GetSeries", CategoryID(q), 0))
    /\ respBody' = NilBody
    /\ err' = BackendErr(Call("GetSeries", CategoryID(q), 0))
    /\ pc' = "filter"
    /\ returns' = Append(returns, [cat |-> CategoryID(q), ok |-> FALSE])
    /\ UNCHANGED <<retLine, idx, inFlight, allSeries, successCount, errorCount,
                   httpcode>>
    /\ ActionFrame

\* lines 295-335, 377: the raw all-series call answers 200 with a JSON
\* array; the records of the category are returned.  The err set to nil on
\* line 334 is the one declared on line 299, not the result of Action,
\* which keeps the error of the failed fetch.
SeriesFilterOk ==
    /\ pc = "filter"
    /\ calls' = Append(calls, RawCall)
    /\ rawSeries' \in RawLists
    /\ respBody' = SeriesBody(FilterAll(rawSeries', CategoryID(q)))
    /\ pc' = "done"
    /\ retLine' = 377
    /\ rawKind' = "ok"
    /\ openBodies' = DeferredClose(BodiesAfterGet(openBodies, "ok"))
    /\ UNCHANGED <<idx, inFlight, returns, allSeries, successCount, errorCount,
                   httpcode, err, categoriesErr>>
    /\ SeriesFrame

\* lines 295-338, 377: the raw all-series call fails too
SeriesFilterFails ==
    /\ pc = "filter"
    /\ calls' = Append(calls, RawCall)
    /\ \E kind \in RawFailures :
        /\ rawKind' = kind
        /\ openBodies' = DeferredClose(BodiesAfterGet(openBodies, kind))
    /\ pc' = "done"
    /\ retLine' = 377
    /\ UNCHANGED <<idx, inFlight, returns, allSeries, successCount, errorCount,
                   respBody, httpcode, err, categoriesErr, rawSeries>>
    /\ SeriesFrame

ActionNext ==
    \/ ActValidationFails
    \/ ActLimitFails
    \/ ActSingleCall
    \/ ActLogin
    \/ SeriesRawOk
    \/ SeriesRawFails
    \/ SeriesCategoriesFail
    \/ SeriesCategoriesOk
    \/ FetchStart
    \/ FetchFails
    \/ FetchOk
    \/ SeriesLoopDone
    \/ SeriesDirectOk
    \/ SeriesDirectFails
    \/ SeriesFilterOk
    \/ SeriesFilterFails

FanOutNext ==
    \/ SeriesRawOk
    \/ SeriesRawFails
    \/ SeriesCategoriesFail
    \/ SeriesCategoriesOk
    \/ FetchStart
    \/ FetchFails
    \/ FetchOk
    \/ SeriesLoopDone

\* -------------- SpecPlaylist: reverseProxy and m3u8ReverseProxy
\* A URI is the sequence of its characters.

\* the place of the last t in s, 0 when there is none
LastIndexOf(s, t) ==
    IF \E i \in 1..Len(s) : s[i] = t
    THEN CHOOSE i \in 1..Len(s) : s[i] = t /\ \A j \in (i + 1)..Len(s) : s[j] # t
    ELSE 0

RECURSIVE StripTrailingSlashes(_)
StripTrailingSlashes(s) ==
    IF s # <<>> /\ s[Len(s)] = "/"
    THEN StripTrailingSlashes(SubSeq(s, 1, Len(s) - 1))
    ELSE s

\* path.Base(p): the last element of p, its trailing slashes dropped
\* first; "." for the empty path and "/" for a path of slashes only
Base(p) ==
    IF p = <<>> THEN <<".">>
    ELSE LET t == StripTrailingSlashes(p)
             last == SubSeq(t, LastIndexOf(t, "/") + 1, Len(t))
         IN  IF last = <<>> THEN <<"/">> ELSE last

\* old stands in s at place i
OccursAt(s, i, old) ==
    /\ i + Len(old) - 1 <= Len(s)
    /\ SubSeq(s, i, i + Len(old) - 1) = old

\* strings.ReplaceAll(s, old, new) from place i on, for a non-empty old:
\* every occurrence of old, taken from the left and not overlapping, is
\* replaced by new
RECURSIVE ReplaceFrom(_, _, _, _)
ReplaceFrom(s, i, old, new) ==
    IF i > Len(s) THEN <<>>
    ELSE IF OccursAt(s, i, old)
         THEN new \o ReplaceFrom(s, i + Len(old), old, new)
         ELSE <<s[i]>> \o ReplaceFrom(s, i + 1, old, new)

\* strings.ReplaceAll(s, old, new) for an empty old: new goes before every
\* character of s and after the last
RECURSIVE InsertEverywhere(_, _)
InsertEverywhere(s, new) ==
    IF s = <<>> THEN new
    ELSE new \o <<Head(s)>> \o InsertEverywhere(Tail(s), new)

ReplaceAll(s, old, new) ==
    IF old = <<>> THEN InsertEverywhere(s, new) ELSE ReplaceFrom(s, 1, old, new)

\* line 56: the string m3u8ReverseProxy parses as the target URL
M3u8Target(uri, ident) == ReplaceAll(uri, Base(uri), ident)

\* url.Parse fails on a percent sign that starts no valid escape; the other
\* URLs here are made of letters, ":" and "/" and parse to a URL whose
\* String() is the string parsed
ParseFails(rawURL) == UnescapeFails(rawURL)

\* the track URIs: a scheme, a host and a path of one or more segments
SchemePrefix == <<"h", ":", "/", "/">>

Hosts == {<<"a">>, <<"t", "v">>}

SegmentNames == {<<"a">>, <<"b">>, <<"t", "v">>, <<"a", "b">>}

RECURSIVE JoinPath(_)
JoinPath(segs) ==
    IF segs = <<>> THEN <<>> ELSE <<"/">> \o Head(segs) \o JoinPath(Tail(segs))

TrackURIs ==
    {SchemePrefix \o h \o JoinPath(segs) :
        h \in Hosts, segs \in SeqsUpTo(SegmentNames, MaxSegments) \ {<<>>}}
    \cup {SchemePrefix \o <<"a", "/", "%">>}

\* the identifiers a client asks for; "%" makes a URL that does not parse
Identifiers == {<<"c">>, <<"a">>, <<"%">>}

PlaylistInit ==
    /\ ppc = "start"
    /\ route \in {"reverseProxy", "m3u8ReverseProxy"}
    /\ trackURI \in TrackURIs
    /\ id \in Identifiers
    /\ rpURL = <<>>
    /\ pStatus = 0

PlaylistIdle ==
    /\ ppc = "idle"
    /\ route = "reverseProxy"
    /\ trackURI = <<>>
    /\ id = <<>>
    /\ rpURL = <<>>
    /\ pStatus = 0

\* what a step of the two handlers leaves alone
PlaylistFrame ==
    UNCHANGED <<mergeVars, authVars, actionVars, route, trackURI, id, inHdr,
                reqHdr, reqSent, upStatus, upHdr, upBody, respOpen, wHdr,
                wStatus, wBody>>

\* lines 44-48: the track URI does not parse
ReverseProxyParseFails ==
    /\ ppc = "start"
    /\ route = "reverseProxy"
    /\ ParseFails(trackURI)
    /\ pStatus' = StatusInternalServerError
    /\ ppc' = "aborted"
    /\ UNCHANGED <<rpURL, spc>>
    /\ PlaylistFrame

\* lines 44-50: the track URI is the target; stream() is entered
ReverseProxy ==
    /\ ppc = "start"
    /\ route = "reverseProxy"
    /\ ~ParseFails(trackURI)
    /\ rpURL' = trackURI
    /\ ppc' = "resolved"
    /\ spc' = "start"
    /\ UNCHANGED pStatus
    /\ PlaylistFrame

\* lines 54-60: the target does not parse
M3u8ReverseProxyParseFails ==
    /\ ppc = "start"
    /\ route = "m3u8ReverseProxy"
    /\ ParseFails(M3u8Target(trackURI, id))
    /\ pStatus' = StatusInternalServerError
    /\ ppc' = "aborted"
    /\ UNCHANGED <<rpURL, spc>>
    /\ PlaylistFrame

\* lines 54-62: the target is resolved; stream() is entered
M3u8ReverseProxy ==
    /\ ppc = "start"
    /\ route = "m3u8ReverseProxy"
    /\ ~ParseFails(M3u8Target(trackURI, id))
    /\ rpURL' = M3u8Target(trackURI, id)
    /\ ppc' = "resolved"
    /\ spc' = "start"
    /\ UNCHANGED pStatus
    /\ PlaylistFrame

PlaylistNext ==
    \/ ReverseProxyParseFails
    \/ ReverseProxy
    \/ M3u8ReverseProxyParseFails
    \/ M3u8ReverseProxy

\* ================================================= the specifications

InitStream == StreamInit /\ MergeIdle /\ AuthIdle /\ ActionIdle /\ PlaylistIdle

SpecStream ==
    /\ InitStream
    /\ [][StreamNext]_vars

InitAuth == AuthInit /\ MergeIdle /\ StreamIdle /\ ActionIdle /\ PlaylistIdle

SpecAuth ==
    /\ InitAuth
    /\ [][AuthNext]_vars

InitMerge == MergeInit /\ StreamIdle /\ AuthIdle /\ ActionIdle /\ PlaylistIdle

SpecMerge ==
    /\ InitMerge
    /\ [][MergeNext]_vars

InitAction == ActionInit /\ MergeIdle /\ StreamIdle /\ AuthIdle /\ PlaylistIdle

SpecAction ==
    /\ InitAction
    /\ [][ActionNext]_vars

InitFanOut == FanOutInit /\ MergeIdle /\ StreamIdle /\ AuthIdle /\ PlaylistIdle

SpecFanOut ==
    /\ InitFanOut
    /\ [][FanOutNext]_vars

\* the requests that obtain upstream responses: a relay request, or a
\* get_series request
InitBodies ==
    \/ StreamInit /\ MergeIdle /\ AuthIdle /\ ActionIdle /\ PlaylistIdle
    \/ SeriesInit /\ MergeIdle /\ StreamIdle /\ AuthIdle /\ PlaylistIdle

BodiesNext ==
    \/ StreamNewRequestFails
    \/ StreamBuildRequest
    \/ StreamDoFails
    \/ StreamDo
    \/ StreamErrorStatus
    \/ StreamCopy
    \/ SeriesRawOk
    \/ SeriesRawFails
    \/ SeriesCategoriesFail
    \/ SeriesCategoriesOk
    \/ FetchStart
    \/ FetchFails
    \/ FetchOk
    \/ SeriesLoopDone
    \/ SeriesDirectOk
    \/ SeriesDirectFails
    \/ SeriesFilterOk
    \/ SeriesFilterFails

SpecBodies ==
    /\ InitBodies
    /\ [][BodiesNext]_vars

InitPlaylist == PlaylistInit /\ MergeIdle /\ StreamIdle /\ AuthIdle /\ ActionIdle

SpecPlaylist ==
    /\ InitPlaylist
    /\ [][PlaylistNext]_vars

\* ===================================================== the properties

\* C1: the outbound request an inbound relay request leads to carries no
\* Authorization and no Proxy-Authorization value, whatever the inbound
\* request carried.
C1_NoCredentialHeaderUpstream ==
    reqSent =>
        /\ reqHdr["Authorization"] = <<>>
        /\ reqHdr["Proxy-Authorization"] = <<>>

\* the categories whose fetch returned without an error, and with one
OkCats == {returns[i].cat : i \in {j \in 1..Len(returns) : returns[j].ok}}
FailedCats == {returns[i].cat : i \in {j \in 1..Len(returns) : ~returns[j].ok}}

\* the categories the backend lists, as GetSeries is asked for them
ListedCats == {Itoa(c) : c \in 1..nCat}

\* how many records the categories 1..n whose fetch succeeded hold
RECURSIVE RecordsOfOkCats(_)
RecordsOfOkCats(n) ==
    IF n = 0 THEN 0
    ELSE RecordsOfOkCats(n - 1) + (IF Itoa(n) \in OkCats THEN Len(SeriesOf(n)) ELSE 0)

\* C2: a get_series request without a category that went through the
\* category-by-category aggregation over N categories, k of which failed,
\* returns no error and a list that holds every record of the N-k
\* categories that succeeded, each once, and no record of a failed one.
C2_AggregationReturnsSuccessfulCategories ==
    (pc = "done" /\ action = getSeries /\ retLine = 377
        /\ (Len(q["category_id"]) = 0 \/ q["category_id"][1] = E)) =>
        /\ err = NilErr
        /\ httpcode = 0
        /\ respBody.kind = "series"
        /\ OkCats \cup FailedCats = ListedCats
        /\ OkCats \cap FailedCats = {}
        /\ Range(respBody.list) = UNION {Range(SeriesOf(c)) : c \in {d \in 1..nCat : Itoa(d) \in OkCats}}
        /\ Len(respBody.list) = RecordsOfOkCats(nCat)
        /\ \A i \in 1..Len(respBody.list) :
              Itoa(respBody.list[i].CategoryID.val) \notin FailedCats

\* three categories, the first failed, the second gave its two records
C2_Witness ==
    /\ pc = "done"
    /\ retLine = 377
    /\ action = getSeries
    /\ q["category_id"] = <<>>
    /\ nCat = 3
    /\ FailedCats = {<<"1">>}
    /\ OkCats = {<<"2">>, <<"3">>}
    /\ respBody = SeriesBody(SeriesOf(2))

\* the request names a category
CategoryGiven == Len(q["category_id"]) > 0 /\ q["category_id"][1] # E

\* C3 as stated: a get_series request with a category makes exactly one
\* call to the backend, whether that call succeeds or fails.
C3_ExactlyOneBackendCall ==
    (pc = "done" /\ action = getSeries /\ CategoryGiven) => Len(calls) = 1

\* C3 as amended: a get_series request with a category asks the backend for
\* that category's series once; when that call succeeds it is the only
\* call; when it fails, one raw all-series request follows and nothing
\* else.  The category list is never fetched and no other category is.
C3_OneFetchThenAtMostOneRawCall ==
    (pc = "done" /\ action = getSeries /\ CategoryGiven) =>
        /\ Len(returns) = 1
        /\ returns[1].cat = q["category_id"][1]
        /\ calls[1] = Call("GetSeries", q["category_id"][1], 0)
        /\ returns[1].ok => calls = <<Call("GetSeries", q["category_id"][1], 0)>>
        /\ ~returns[1].ok => calls = <<Call("GetSeries", q["category_id"][1], 0), RawCall>>
        /\ inFlight = {}

\* the fetch of category 5 failed and the raw call was made after it
C3_Witness ==
    /\ pc = "done"
    /\ action = getSeries
    /\ q["category_id"] = <<<<"5">>>>
    /\ returns = <<[cat |-> <<"5">>, ok |-> FALSE]>>
    /\ Len(calls) = 2

\* C4: during the aggregation at most 10 per-category fetches are started
\* and not yet returned, whatever the number of categories.  (The fetches
\* started are the idx - 1 first categories.)
C4_AtMostTenFetchesInFlight ==
    /\ Cardinality(inFlight) <= 10
    /\ pc = "loop" => (idx - 1) - Len(returns) = Cardinality(inFlight)
    /\ pc = "loop" => (idx - 1) - Len(returns) <= 10

\* the eleventh fetch is in flight, after the ten before it returned
C4_Witness ==
    /\ pc = "loop"
    /\ nCat = 11
    /\ inFlight = {11}
    /\ Len(returns) = 10

\* C5: get_vod_info without vod_id, get_series_info without series_id,
\* get_short_epg and get_simple_data_table without stream_id return code
\* 400, an error naming the parameter, a nil body, and call the backend
\* not once.
C5_MissingParameterIsRejected ==
    \A pair \in {<<getVodInfo, "vod_id">>, <<getSerieInfo, "series_id">>,
                 <<getShortEPG, "stream_id">>, <<getSimpleDataTable, "stream_id">>} :
        (pc = "done" /\ action = pair[1] /\ Len(q[pair[2]]) = 0) =>
            /\ httpcode = 400
            /\ err = [kind |-> "missing", param |-> pair[2]]
            /\ respBody = NilBody
            /\ calls = <<>>

\* a get_vod_info request without vod_id was answered
C5_Witness ==
    /\ pc = "done"
    /\ action = getVodInfo
    /\ q["vod_id"] = <<>>
    /\ httpcode = 400
    /\ retLine = 127

\* a decimal integer: an optional sign and then digits only, at least one
IsDecimalInteger(str) ==
    LET ds == IF str # <<>> /\ str[1] \in {"+", "-"} THEN Tail(str) ELSE str
    IN  /\ Len(ds) >= 1
        /\ \A i \in 1..Len(ds) :
              ds[i] \in {"0", "1", "2", "3", "4", "5", "6", "7", "8", "9"}

\* C6: a get_short_epg request with stream_id and with a non-empty limit
\* that is no decimal integer returns code 500 and an error, and makes no
\* call to the backend.
C6_BadLimitIsInternalError ==
    (pc = "done" /\ action = getShortEPG /\ Len(q["stream_id"]) > 0
        /\ Len(q["limit"]) > 0 /\ q["limit"][1] # E
        /\ ~IsDecimalInteger(q["limit"][1])) =>
        /\ httpcode = 500
        /\ err # NilErr
        /\ calls = <<>>

\* limit=abc was answered
C6_Witness ==
    /\ pc = "done"
    /\ action = getShortEPG
    /\ q["stream_id"] = <<<<"7">>>>
    /\ q["limit"] = <<<<"a", "b", "c">>>>
    /\ httpcode = 500

\* C7: an action outside the ten names makes no call to the backend and
\* returns, with a nil error, the login answer: protocol https exactly when
\* the configuration says HTTPS, URL protocol://hostname, the advertised
\* port, the proxy's own user name and password, and the backend
\* session's account fields and server time.
C7_UnknownActionGetsLoginAnswer ==
    (pc = "done"
        /\ action \notin {"get_live_categories", "get_live_streams",
                          "get_vod_categories", "get_vod_streams", "get_vod_info",
                          "get_series_categories", "get_series", "get_series_info",
                          "get_short_epg", "get_simple_data_table"}) =>
        /\ calls = <<>>
        /\ err = NilErr
        /\ respBody.kind = "login"
        /\ respBody.ServerInfo.Protocol = (IF cfg.HTTPS THEN "https" ELSE "http")
        /\ respBody.ServerInfo.URL = <<respBody.ServerInfo.Protocol, "://", cfg.Hostname>>
        /\ respBody.ServerInfo.Port = cfg.AdvertisedPort
        /\ respBody.UserInfo.Username = cfg.User
        /\ respBody.UserInfo.Password = cfg.Password
        /\ respBody.UserInfo.Message = sess.UserInfo.Message
        /\ respBody.UserInfo.Auth = sess.UserInfo.Auth
        /\ respBody.UserInfo.Status = sess.UserInfo.Status
        /\ respBody.UserInfo.ExpDate = sess.UserInfo.ExpDate
        /\ respBody.UserInfo.ActiveConnections = sess.UserInfo.ActiveConnections
        /\ respBody.UserInfo.MaxConnections = sess.UserInfo.MaxConnections
        /\ respBody.ServerInfo.Timezone = sess.ServerInfo.Timezone
        /\ respBody.ServerInfo.TimestampNow = sess.ServerInfo.TimestampNow
        /\ respBody.ServerInfo.TimeNow = sess.ServerInfo.TimeNow

\* the empty action was answered by a proxy configured for HTTPS
C7_Witness ==
    /\ pc = "done"
    /\ action = ""
    /\ cfg.HTTPS
    /\ respBody.kind = "login"
    /\ respBody.ServerInfo.Protocol = "https"
    /\ respBody.ServerInfo.Port = 443

\* C8: an upstream status >= 400 reaches the client with that status and a
\* body that is the first min(8192, length) bytes of the upstream body: the
\* whole body when it has at most 8192 bytes, its first 8192 bytes
\* otherwise, and nothing more.
C8_ErrorBodyIsBoundedPrefix ==
    (spc = "done" /\ upStatus >= 400) =>
        /\ wStatus = upStatus
        /\ Len(wBody) = Min(ErrBodyLimit, Len(upBody))
        /\ \A i \in 1..Len(wBody) : wBody[i] = upBody[i]
        /\ Len(upBody) <= ErrBodyLimit => wBody = upBody

\* an upstream error whose body is longer than the limit was relayed
C8_Witness ==
    /\ spc = "done"
    /\ upStatus = 500
    /\ Len(upBody) = ErrBodyLimit + 1
    /\ Len(wBody) = ErrBodyLimit
    /\ wStatus = 500

\* C9: mergeHttpHeader(dst, src) is a union by (name, value): dst keeps
\* what it held, in order, as the head of each value list; every value of
\* src is in dst afterwards; nothing else is; a value dst held is not added
\* again and a new value is added once; src is unchanged; and merging once
\* more changes nothing.
C9_MergeIsSetUnion ==
    mstep >= 1 =>
        /\ \A k \in MergeNames :
            /\ Len(mdst[k]) >= Len(mdst0[k])
            /\ SubSeq(mdst[k], 1, Len(mdst0[k])) = mdst0[k]
            /\ Range(msrc0[k]) \subseteq Range(mdst[k])
            /\ Range(mdst[k]) \subseteq Range(mdst0[k]) \cup Range(msrc0[k])
            /\ \A v \in Range(mdst[k]) :
                  Count(mdst[k], v) =
                      IF v \in Range(mdst0[k]) THEN Count(mdst0[k], v) ELSE 1
        /\ msrc = msrc0
        /\ mergeHttpHeader(mdst, msrc) = mdst

\* a merge of a value dst held and of a new one, applied twice
C9_Witness ==
    /\ mstep = 2
    /\ mdst0["Accept"] = <<"a">>
    /\ msrc0["Accept"] = <<"a", "b">>
    /\ mdst["Accept"] = <<"a", "b">>

\* C10 as stated: whenever appAuthenticate has read the request body, the
\* body yields the bytes originally sent again when the gate returns, on
\* every path (accepted, rejected, field missing, body not parseable).
C10_BodyRestoredOnEveryPath ==
    (apc = "returned" /\ aRead) => rBody = sentBody

\* C10 as amended: when the gate returns after comparing the credentials
\* (accepted, or rejected with 401), the body yields the bytes originally
\* sent again, and the handler chained after the gate, which runs only when
\* the request was not aborted, reads exactly those bytes.  On the abort
\* paths taken before the comparison (400 field missing, 500 not
\* parseable) the body is left drained and no later handler runs.
C10_BodyRestoredAfterComparison ==
    /\ (apc = "returned" /\ aRead /\ aStatus \in {0, StatusUnauthorized}) =>
            rBody = sentBody
    /\ (apc = "returned" /\ ~aborted) => rBody = sentBody
    /\ handlerRan => (handlerRead = sentBody /\ ~aborted)
    /\ (apc = "returned" /\ aRead
            /\ aStatus \in {StatusBadRequest, StatusInternalServerError}) =>
            (rBody = <<>> /\ aborted)

\* a request with a wrong user name was rejected with 401 and its body
\* put back
C10_Witness ==
    /\ apc = "returned"
    /\ aRead
    /\ aStatus = StatusUnauthorized
    /\ sentBody = <<"username", "=", "x", "&", "password", "=", "p">>
    /\ rBody = sentBody

\* ---- C11

\* the url-encoded credentials of the request, where its gate reads them
Credentials == IF gate = "authenticate" THEN rawQuery ELSE sentBody

\* the values supplied for the two fields
SuppliedUsername == ParseQuery(Credentials).m.username
SuppliedPassword == ParseQuery(Credentials).m.password

\* a user name or a password was supplied and is not the proxy's
SuppliedMismatch ==
    \/ Len(SuppliedUsername) > 0 /\ SuppliedUsername[1] # ProxyUser
    \/ Len(SuppliedPassword) > 0 /\ SuppliedPassword[1] # ProxyPassword

\* both were supplied and are exactly the proxy's
SuppliedEqual ==
    /\ Len(SuppliedUsername) > 0 /\ SuppliedUsername[1] = ProxyUser
    /\ Len(SuppliedPassword) > 0 /\ SuppliedPassword[1] = ProxyPassword

GateReturned == apc \in {"returned", "handled"}

\* nothing downstream of the gate happened: no chained handler ran, the
\* dispatcher was not entered and called no backend, the relay was not
\* entered and sent no request
NoDownstreamEffect ==
    /\ ~handlerRan
    /\ pc = "idle" /\ calls = <<>>
    /\ spc = "idle" /\ ~reqSent

\* the gate got as far as comparing the credentials: the values were read
\* and parsed and both fields are there (and not empty, for authenticate)
ReachedComparison ==
    /\ ~ParseQuery(Credentials).err
    /\ Len(SuppliedUsername) > 0 /\ Len(SuppliedPassword) > 0
    /\ IF gate = "authenticate"
       THEN SuppliedUsername[1] # <<>> /\ SuppliedPassword[1] # <<>>
       ELSE aRead

\* C11 as stated: in both gates a request whose supplied user name or
\* password is not exactly the proxy's is aborted with status 401 and
\* nothing downstream of the gate happens for it; a request passes the
\* gate only if both values are exactly equal.
C11_MismatchIsAbortedWith401 ==
    /\ (GateReturned /\ SuppliedMismatch) =>
            (aborted /\ aStatus = StatusUnauthorized)
    /\ SuppliedMismatch => NoDownstreamEffect
    /\ (GateReturned /\ ~aborted) => SuppliedEqual

\* C11 as amended: in both gates a request whose user name and password
\* are not both supplied and exactly the proxy's is aborted and nothing
\* downstream of the gate happens for it; the status is 401 when the gate
\* got as far as the comparison, and 400 or 500 when it rejected the
\* request before (a field missing, the values not readable or not
\* parseable).  A request passes the gate only if both values are exactly
\* equal.
C11_MismatchNeverPassesTheGate ==
    /\ (GateReturned /\ ~SuppliedEqual) =>
            /\ aborted
            /\ aStatus \in {StatusBadRequest, StatusUnauthorized,
                            StatusInternalServerError}
    /\ (GateReturned /\ ReachedComparison /\ SuppliedMismatch) =>
            (aborted /\ aStatus = StatusUnauthorized)
    /\ (~SuppliedEqual \/ aborted) => NoDownstreamEffect
    /\ (GateReturned /\ ~aborted) => (SuppliedEqual /\ aStatus = 0)
    /\ handlerRan => (SuppliedEqual /\ ~aborted)

\* authenticate rejected a request with the right user name and a wrong
\* password with 401
C11_Witness ==
    /\ apc = "returned"
    /\ gate = "authenticate"
    /\ rawQuery = <<"username", "=", "u", "&", "password", "=", "x">>
    /\ aStatus = StatusUnauthorized
    /\ aborted
    /\ NoDownstreamEffect

\* ---- C12

\* the user name or the password entry of the body is absent, or is there
\* with an empty value
EntryAbsentOrEmpty ==
    \/ Len(SuppliedUsername) = 0 \/ Len(SuppliedPassword) = 0
    \/ SuppliedUsername[1] = <<>> \/ SuppliedPassword[1] = <<>>

\* C12: appAuthenticate rejects a url-encoded body whose user name or
\* password entry is absent or empty with the parameter error 400; the
\* authorization failure 401 is kept for non-empty credentials that do not
\* match.
C12_AbsentOrEmptyEntryIsParameterError ==
    (gate = "appAuthenticate" /\ apc = "returned" /\ aRead
        /\ ~ParseQuery(sentBody).err) =>
        /\ EntryAbsentOrEmpty => aStatus = StatusBadRequest
        /\ aStatus = StatusUnauthorized => ~EntryAbsentOrEmpty

\* ---- C13

\* the calls fetching the series of one category
SeriesFetches == {i \in 1..Len(calls) : calls[i].op = "GetSeries"}

\* C13: in the aggregation over all categories, when the category list
\* cannot be fetched Action returns code 500 with that error and a nil
\* body, and fetches the series of no category.
C13_CategoryListFailureAborts ==
    categoriesErr # NilErr =>
        /\ pc = "done"
        /\ httpcode = StatusInternalServerError
        /\ err = categoriesErr
        /\ respBody = NilBody
        /\ SeriesFetches = {}
        /\ inFlight = {}
        /\ returns = <<>>
        /\ calls[Len(calls)] = Call("GetSeriesCategories", E, 0)

\* the raw call failed, then the category list, of a backend that has
\* categories
C13_Witness ==
    /\ pc = "done"
    /\ action = getSeries
    /\ nCat = MaxCategories
    /\ categoriesErr # NilErr
    /\ calls = <<RawCall, Call("GetSeriesCategories", E, 0)>>
    /\ httpcode = StatusInternalServerError

\* ---- C14

\* the URI with nothing but its final path segment replaced by ident
FinalSegmentReplaced(uri, ident) ==
    SubSeq(uri, 1, LastIndexOf(uri, "/")) \o ident

\* C14: the target a sub-playlist request with identifier id resolves to
\* is the track URI with only its final path segment replaced by id;
\* scheme, host and every earlier segment are those of the track URI, also
\* when the text of the final segment occurs elsewhere in the URI.
C14_OnlyFinalSegmentReplaced ==
    (ppc = "resolved" /\ route = "m3u8ReverseProxy") =>
        rpURL = FinalSegmentReplaced(trackURI, id)

\* ---- C15

\* C15: when the relay returns, the body of the upstream response it
\* obtained is closed, and when Action returns, the body of every response
\* its raw all-series calls obtained is closed, whichever path led to the
\* return (success, error status, read error, parse error, early return).
C15_NoBodyLeftOpen ==
    /\ spc = "done" => ~respOpen
    /\ pc = "done" => openBodies = 0

\* the raw call was answered with a status other than 200, the category
\* list failed and Action returned early
C15_Witness ==
    /\ pc = "done"
    /\ rawKind = "status"
    /\ retLine = 258
    /\ openBodies = 0

\* ---- C16

\* how often the series of category cat were asked for
FetchesOf(cat) ==
    Cardinality({i \in SeriesFetches : calls[i].arg = cat})

\* C16: within one Action call no backend operation is invoked twice for
\* the same target; in particular each series category is fetched at most
\* once, and one whose fetch failed is never fetched again.
C16_NoBackendCallRepeated ==
    /\ \A i, j \in 1..Len(calls) : i # j => calls[i] # calls[j]
    /\ \A c \in 1..nCat : FetchesOf(Itoa(c)) <= 1
    /\ \A k \in 1..Len(returns) :
            ~returns[k].ok => FetchesOf(returns[k].cat) = 1

\* the fetch of the first category failed, the loop went on and Action
\* returned after the last category
C16_Witness ==
    /\ pc = "done"
    /\ nCat = MaxCategories
    /\ Len(returns) = nCat
    /\ ~returns[1].ok
    /\ returns[1].cat = Itoa(1)
    /\ Len(calls) = nCat + 2

\* ---- C17

\* C17: when the upstream host answers a relay request with a status below
\* 400, the client gets that status and the whole upstream body, byte for
\* byte and in order, whatever its length, and the response header holds
\* every upstream header value.
C17_SuccessBodyRelayedWhole ==
    (spc = "done" /\ reqSent /\ upStatus # 0 /\ upStatus < 400) =>
        /\ wStatus = upStatus
        /\ wBody = upBody
        /\ \A k \in RespNames : \A i \in 1..Len(upHdr[k]) :
                contains(wHdr[k], upHdr[k][i])

\* a body one byte longer than 8 KB was relayed whole with status 200
C17_Witness ==
    /\ spc = "done"
    /\ upStatus = 200
    /\ Len(upBody) = ErrBodyLimit + 1
    /\ wBody = upBody
    /\ upHdr["Server"] = <<"a", "b">>

\* ---- C18

\* the calls of the category-by-category aggregation
AggregationCalls ==
    {i \in 1..Len(calls) : calls[i].op \in {"GetSeriesCategories", "GetSeries"}}

\* C18: get_series with an empty category_id first makes one raw
\* all-series call.  If that call is answered 200 with a JSON array, Action
\* returns the converted list, one record for each element of the array
\* and in its order, with a nil error, and calls neither the category list
\* nor a category fetch.  The aggregation runs only if the raw call failed.
C18_RawCallFirstThenFallback ==
    (action = getSeries /\ ~CategoryGiven) =>
        /\ calls # <<>> => calls[1] = RawCall
        /\ Cardinality({i \in 1..Len(calls) : calls[i] = RawCall}) <= 1
        /\ pc = "done" => calls # <<>>
        /\ rawKind = "ok" =>
                /\ pc = "done"
                /\ calls = <<RawCall>>
                /\ err = NilErr
                /\ respBody.kind = "series"
                /\ Len(respBody.list) = Len(rawSeries)
                /\ \A i \in 1..Len(rawSeries) :
                        respBody.list[i] = ConvertSerie(rawSeries[i])
        /\ AggregationCalls # {} => rawKind \in RawFailures

\* the raw call was answered with an array of two different records
C18_Witness ==
    /\ action = getSeries
    /\ ~CategoryGiven
    /\ pc = "done"
    /\ rawKind = "ok"
    /\ Len(rawSeries) = 2
    /\ rawSeries[1].name = JAbsent
    /\ rawSeries[2].name # JAbsent
    /\ calls = <<RawCall>>

\* ---- C19

\* C19: get_series with a category whose direct fetch failed returns, when
\* the all-series call made instead succeeds, the series of that category
\* with a nil error; the error of the failed fetch is returned only when
\* that call fails too.
C19_FilterFallbackClearsError ==
    (action = getSeries /\ CategoryGiven /\ pc = "done"
        /\ returns = <<[cat |-> CategoryID(q), ok |-> FALSE]>>) =>
        /\ rawKind = "ok" =>
                /\ respBody = SeriesBody(FilterAll(rawSeries, CategoryID(q)))
                /\ err = NilErr
        /\ rawKind \in RawFailures =>
                err = BackendErr(Call("GetSeries", CategoryID(q), 0))

\* ---- C20

\* C20: get_short_epg checks that stream_id is there before it parses the
\* limit: without stream_id the answer is the parameter error 400 naming
\* stream_id, also when the limit is no number; with stream_id and an
\* absent or empty limit the backend is called with limit 0; and whenever
\* Action answers with an error code, no backend call was made.
C20_StreamIdCheckedBeforeLimit ==
    (action = getShortEPG /\ pc = "done") =>
        /\ Len(q["stream_id"]) = 0 =>
                /\ httpcode = StatusBadRequest
                /\ err = MissingErr("stream_id")
                /\ calls = <<>>
        /\ (Len(q["stream_id"]) > 0
                /\ (Len(q["limit"]) = 0 \/ q["limit"][1] = E)) =>
                /\ httpcode = 0
                /\ calls = <<Call("GetShortEPG", q["stream_id"][1], 0)>>
        /\ httpcode # 0 => (calls = <<>> /\ respBody = NilBody)

\* stream_id is missing and the limit is no number: the answer is 400
C20_Witness ==
    /\ action = getShortEPG
    /\ pc = "done"
    /\ q["stream_id"] = <<>>
    /\ q["limit"] = <<<<"a">>>>
    /\ httpcode = StatusBadRequest
    /\ calls = <<>>

=============================================================================
